---- MODULE Spec2Model ----
(***************************************************************************)
(* A model of src/src/child_weight.cpp: the class Child (the dynamic       *)
(* weight model for children of Hall et al.) and its Runge-Kutta driver.   *)
(*                                                                         *)
(* Arithmetic.  The source computes in IEEE-754 double.  The model keeps   *)
(* the two places where the precision of double decides what the program   *)
(* does:                                                                   *)
(*  - ages, times and step sizes (age, dt, days, TIME, AGE) are binary     *)
(*    floating point numbers with a significand of PrecBits bits, rounded  *)
(*    to nearest, ties to even, as double is, at a reduced width.  A value *)
(*    is held as an integer count of Unit-ths (Unit = 2^FracBits).         *)
(*  - masses and energies (FFM, FM, intake, expenditure, the parameters)   *)
(*    are fixed point numbers in thousandths (kg/1000, kcal/1000), every   *)
(*    product and quotient rounded down to a thousandth.                   *)
(***************************************************************************)
EXTENDS Integers, Sequences, FiniteSets, TLC

----------------------------------------------------------------------------
(* Bounds of the model *)

\* width of the significand of the model's floating point numbers
PrecBits == 17
\* the largest number of days a call of rk4 is given
MaxDays == 3
\* the largest cohort
MaxInd == 2
\* the number of calls of rk4 the driver makes
MaxCalls == 2

----------------------------------------------------------------------------
(* Floating point: ages, times, step sizes *)

RECURSIVE Pow2(_)
Pow2(k) == IF k <= 0 THEN 1 ELSE 2 * Pow2(k - 1)

RECURSIVE BitLen(_)
BitLen(n) == IF n <= 0 THEN 0 ELSE 1 + BitLen(n \div 2)

Abs(x) == IF x < 0 THEN -x ELSE x

Min(a, b) == IF a < b THEN a ELSE b

Max(a, b) == IF a < b THEN b ELSE a

\* 1/365 lies in [2^-9, 2^-8): its last significand bit is 2^-(PrecBits+8)
FracBits == PrecBits + 8

Unit == Pow2(FracBits)

\* 365.0
DaysPerYear == 365

\* the whole number k as a floating point number
Fl(k) == k * Unit

\* the non-negative rational n/d (in Unit-ths) rounded to PrecBits significant
\* bits, to nearest, ties to even
RoundPos(n, d) ==
    LET Q    == n \div d
        rem  == n % d
        L    == BitLen(Q)
    IN  IF L <= PrecBits
        THEN LET up == (2 * rem > d) \/ (2 * rem = d /\ Q % 2 = 1)
             IN  Q + (IF up THEN 1 ELSE 0)
        ELSE LET s    == L - PrecBits
                 m    == Q \div Pow2(s)
                 low  == Q % Pow2(s)
                 half == Pow2(s - 1)
                 up   == \/ low > half
                         \/ (low = half /\ rem > 0)
                         \/ (low = half /\ rem = 0 /\ m % 2 = 1)
             IN  (m + (IF up THEN 1 ELSE 0)) * Pow2(s)

RoundQ(n, d) == (IF n < 0 THEN -1 ELSE 1) * RoundPos(Abs(n), d)

\* double + double
FAdd(a, b) == RoundQ(a + b, 1)

\* double - double
FSub(a, b) == RoundQ(a - b, 1)

\* double * double, one factor a whole number or the reciprocal of a power of two
FMul(a, b) ==
    IF a % Unit = 0 THEN RoundQ((a \div Unit) * b, 1)
    ELSE IF b % Unit = 0 THEN RoundQ((b \div Unit) * a, 1)
    ELSE IF Unit % a = 0 THEN RoundQ(b, Unit \div a)
    ELSE RoundQ(a, Unit \div b)

\* double / double, the divisor a whole number or the reciprocal of a power of two
FDiv(a, b) ==
    IF b % Unit = 0 THEN RoundQ(a, b \div Unit)
    ELSE RoundQ(a * (Unit \div b), 1)

\* 365.0 * double (365.0 itself is beyond the range held in Unit-ths)
FMulDays(a) == RoundQ(DaysPerYear * a, 1)

\* double / 365.0
FDivDays(a) == RoundQ(a, DaysPerYear)

\* floor(double)
FFloor(a) == a \div Unit

\* 0.5
Half == Unit \div 2

----------------------------------------------------------------------------
(* Fixed point: masses, energies, parameters (thousandths) *)

Milli == 10 * 10 * 10

\* the largest integer the checker's arithmetic holds
IntMax == Pow2(30) + (Pow2(30) - 1)

\* <<quotient, remainder>> of a*b by c, for 0 <= a < c, b >= 0, without
\* forming a*b when it would not fit
RECURSIVE MulDivQR(_, _, _)
MulDivQR(a, b, c) ==
    IF a = 0 \/ b = 0 THEN <<0, 0>>
    ELSE IF b <= IntMax \div a THEN <<(a * b) \div c, (a * b) % c>>
    ELSE LET h == MulDivQR(a, b \div 2, c)
             r == 2 * h[2] + (IF b % 2 = 1 THEN a ELSE 0)
         IN  <<2 * h[1] + (r \div c), r % c>>

\* floor(a*b/c), any signs, c # 0
MulDiv(a, b, c) ==
    LET neg == (a < 0) # ((b < 0) # (c < 0))
        Floor(q, rem) == IF ~neg THEN q ELSE IF rem = 0 THEN -q ELSE -q - 1
        Whole(qr) == Floor((Abs(a) \div Abs(c)) * Abs(b) + qr[1], qr[2])
    IN  Whole(MulDivQR(Abs(a) % Abs(c), Abs(b), Abs(c)))

\* x * y and x / y of two numbers in thousandths
MulM(x, y) == MulDiv(x, y, Milli)

DivM(x, y) == MulDiv(x, Milli, y)

\* a floating point number (an age, a step) as a number in thousandths
ToMilli(t) == MulDiv(t, Milli, Unit)

\* Euler's number, in thousandths
EulerM == 2718

\* exp(f) for 0 <= f < 1 (thousandths): the series 1 + f + f^2/2! + ... to
\* the term that vanishes in thousandths
RECURSIVE ExpSeries(_, _, _)
ExpSeries(f, term, k) ==
    IF term = 0 THEN 0
    ELSE term + ExpSeries(f, MulM(term, f) \div k, k + 1)

\* e^n * r for a whole number n
RECURSIVE ExpScale(_, _)
ExpScale(r, n) ==
    IF n = 0 \/ r = 0 THEN r
    ELSE IF n > 0 THEN ExpScale(MulM(r, EulerM), n - 1)
    ELSE ExpScale(DivM(r, EulerM), n + 1)

\* exp(x), x and the result in thousandths
ExpM(x) ==
    LET n == x \div Milli
        f == x % Milli
    IN  ExpScale(ExpSeries(f, Milli, 1), n)

\* pow(x, e) for a whole exponent e >= 0 (e a number, x in thousandths)
RECURSIVE PowM(_, _)
PowM(x, e) == IF e <= 0 THEN Milli ELSE MulM(PowM(x, e - 1), x)

----------------------------------------------------------------------------
(* The class Child.  An object is a record of its members; a vector member *)
(* is a sequence over the individuals 1..nind (individual j of the model   *)
(* is element j-1 of the source's vectors).                                *)

\* NumericVector: the elements held one by one, as a sequence
NumericVector(f) == f \o << >>

\* m*(1 - sex) + f*sex
Blend(m, f, sex) == MulM(m, Milli - sex) + MulM(f, sex)

\* the members getParameters sets
getParameters(age, sex) ==
    LET V(m, f) == NumericVector([j \in DOMAIN sex |-> Blend(m, f, sex[j])])
    IN  [ rhoFM     |-> 9400 * Milli,
          deltamin  |-> 10 * Milli,
          P         |-> 12 * Milli,
          h         |-> 10 * Milli,
          nind      |-> Len(age),
          ffm_beta0 |-> V(2900, 3800),
          ffm_beta1 |-> V(2900, 2300),
          fm_beta0  |-> V(1200, 560),
          fm_beta1  |-> V(410, 740),
          K         |-> V(800000, 700000),
          deltamax  |-> V(19000, 17000),
          A         |-> V(3200, 2300),
          B         |-> V(9600, 8400),
          D         |-> V(10100, 1100),
          tA        |-> V(4700, 4500),
          tB        |-> V(12500, 11700),
          tD        |-> V(15000, 16200),
          tauA      |-> V(2500, 1000),
          tauB      |-> V(1000, 900),
          tauD      |-> V(1500, 700),
          A_EB      |-> V(7200, 16500),
          B_EB      |-> V(30000, 47000),
          D_EB      |-> V(21000, 41000),
          tA_EB     |-> V(5600, 4800),
          tB_EB     |-> V(9800, 9100),
          tD_EB     |-> V(15000, 13500),
          tauA_EB   |-> V(15000, 7000),
          tauB_EB   |-> V(1500, 1000),
          tauD_EB   |-> V(2000, 1500),
          A1        |-> V(3200, 2300),
          B1        |-> V(9600, 8400),
          D1        |-> V(10000, 1100),
          tA1       |-> V(4700, 4500),
          tB1       |-> V(12500, 11700),
          tD1       |-> V(15000, 16000),
          tauA1     |-> V(1000, 1000),
          tauB1     |-> V(940, 940),
          tauD1     |-> V(690, 690) ]

\* build(): the derived members
build(age, sex) == getParameters(age, sex)

\* The members the constructors assign.  bmiCat is a member the reference
\* curves read and no constructor sets: it is given with the cohort.  The
\* members a constructor leaves unset (EIntake, or the six logistic
\* parameters) are never read in its intake mode; they are held as empty or 0.
\* a faulty constructor: with checkValues the fat free mass is raised to 20 kg
ChildTableValidating(input_age, input_sex, input_FFM, input_FM, input_EIntake, input_dt, checkValues, input_bmiCat) ==
    [ built |-> TRUE,
      age |-> input_age, sex |-> input_sex, FM |-> input_FM,
      FFM |-> IF checkValues
              THEN NumericVector([j \in DOMAIN input_FFM |-> Max(input_FFM[j], 20 * Milli)])
              ELSE input_FFM,
      dt |-> input_dt, EIntake |-> input_EIntake, check |-> checkValues,
      generalized_logistic |-> FALSE,
      K_logistic |-> 0, A_logistic |-> 0, Q_logistic |-> 0, B_logistic |-> 0,
      nu_logistic |-> 0, C_logistic |-> 0,
      bmiCat |-> input_bmiCat ] @@ build(input_age, input_sex)

ChildTable(input_age, input_sex, input_FFM, input_FM, input_EIntake, input_dt, checkValues, input_bmiCat) ==
    [ built |-> TRUE,
      age |-> input_age, sex |-> input_sex, FM |-> input_FM, FFM |-> input_FFM,
      dt |-> input_dt, EIntake |-> input_EIntake, check |-> checkValues,
      generalized_logistic |-> FALSE,
      K_logistic |-> 0, A_logistic |-> 0, Q_logistic |-> 0, B_logistic |-> 0,
      nu_logistic |-> 0, C_logistic |-> 0,
      bmiCat |-> input_bmiCat ] @@ build(input_age, input_sex)

ChildLogistic(input_age, input_sex, input_FFM, input_FM, input_K, input_Q, input_A, input_B, input_nu, input_C, input_dt, checkValues, input_bmiCat) ==
    [ built |-> TRUE,
      age |-> input_age, sex |-> input_sex, FM |-> input_FM, FFM |-> input_FFM,
      dt |-> input_dt, EIntake |-> << >>, check |-> checkValues,
      generalized_logistic |-> TRUE,
      K_logistic |-> input_K, A_logistic |-> input_A, Q_logistic |-> input_Q,
      B_logistic |-> input_B, nu_logistic |-> input_nu, C_logistic |-> input_C,
      bmiCat |-> input_bmiCat ] @@ build(input_age, input_sex)

\* an object not constructed yet
NoChild == [ built |-> FALSE ]

----------------------------------------------------------------------------
(* Growth curves, energy partition, thermic effect *)

general_ode(t, input_A, input_B, input_D, input_tA, input_tB, input_tD, input_tauA, input_tauB, input_tauD) ==
    NumericVector([j \in DOMAIN t |->
        MulM(input_A[j], ExpM(-DivM(t[j] - input_tA[j], input_tauA[j])))
      + MulM(input_B[j],
             ExpM(-MulM(500, PowM(DivM(t[j] - input_tB[j], input_tauB[j]), 2))))
      + MulM(input_D[j],
             ExpM(-MulM(500, PowM(DivM(t[j] - input_tD[j], input_tauD[j]), 2))))])

\* the age vector of the source (years, floating point) in thousandths
Years(t) == NumericVector([j \in DOMAIN t |-> ToMilli(t[j])])

Growth_dynamic(c, t) ==
    general_ode(Years(t), c.A, c.B, c.D, c.tA, c.tB, c.tD, c.tauA, c.tauB, c.tauD)

Growth_impact(c, t) ==
    general_ode(Years(t), c.A1, c.B1, c.D1, c.tA1, c.tB1, c.tD1,
                c.tauA1, c.tauB1, c.tauD1)

EB_impact(c, t) ==
    general_ode(Years(t), c.A_EB, c.B_EB, c.D_EB, c.tA_EB, c.tB_EB, c.tD_EB,
                c.tauA_EB, c.tauB_EB, c.tauD_EB)

cRhoFFM(input_FFM) ==
    NumericVector([j \in DOMAIN input_FFM |-> MulM(4300, input_FFM[j]) + 837 * Milli])

cP(c, FFM, FM) ==
    LET C(rhoFFM) == NumericVector([j \in DOMAIN FFM |-> DivM(MulM(10400, rhoFFM[j]), c.rhoFM)])
        Ratio(Cv) == NumericVector([j \in DOMAIN FFM |-> DivM(Cv[j], Cv[j] + FM[j])])
    IN  Ratio(C(cRhoFFM(FFM)))

\* a faulty Delta: (t/P)^h/(1 + (t/P)^h) in place of 1/(1 + (t/P)^h)
DeltaRising(deltamin, deltamax, P, h, t) ==
    deltamin
      + MulM(deltamax - deltamin,
             DivM(PowM(DivM(t, P), h \div Milli),
                  Milli + PowM(DivM(t, P), h \div Milli)))

\* deltamin + (deltamax - deltamin)*(1/(1 + (t/P)^h)) for one individual,
\* t in thousandths of a year
DeltaAt(deltamin, deltamax, P, h, t) ==
    deltamin
      + MulM(deltamax - deltamin,
             DivM(Milli, Milli + PowM(DivM(t, P), h \div Milli)))

Delta(c, t) ==
    NumericVector([j \in DOMAIN t |->
        DeltaAt(c.deltamin, c.deltamax[j], c.P, c.h, ToMilli(t[j]))])

----------------------------------------------------------------------------
(* Reference curves: the tables of FFMReference and FMReference, in grams.  *)
(* Row r is age r+2.  A row of two numbers is (male, female); a row of      *)
(* eight is (male, female) for under, normal, over, obese.                  *)

FfmTable ==
    << <<10134, 9477>>,
       <<12099, 11494>>,
       <<14000, 13200>>,
       <<15720, 14860>>,
       <<14100, 16170, 17060, 15610, 19220, 18340, 21740, 21220>>,
       <<17090, 16060, 18910, 17810, 21660, 21010, 24910, 25600>>,
       <<17400, 18110, 20530, 19900, 24990, 22910, 29000, 28250>>,
       <<19880, 15440, 23330, 21900, 27520, 27280, 31850, 30900>>,
       <<23360, 23640, 25400, 24910, 30820, 31100, 35970, 35710>>,
       <<23860, 21640, 28670, 29240, 33720, 34970, 38620, 40010>>,
       <<27790, 26450, 33110, 32690, 39470, 37230, 44950, 42410>>,
       <<31880, 28450, 38750, 35090, 42820, 39320, 47100, 45270>>,
       <<34010, 34220, 42320, 36610, 48250, 41270, 54830, 46910>>,
       <<34920, 33170, 45210, 38790, 50020, 43430, 55970, 47870>>,
       <<39780, 31720, 47150, 39760, 53730, 45770, 58310, 51020>>,
       <<42120, 33640, 48380, 39980, 55360, 45290, 60350, 50600>>,
       <<52170, 42960>> >>

FmTable ==
    << <<2456, 2433>>,
       <<2576, 2606>>,
       <<2700, 2800>>,
       <<3660, 4470>>,
       <<2040, 2890, 3490, 3920, 4790, 5960, 7200, 9090>>,
       <<2390, 2690, 3690, 4450, 5450, 6760, 8630, 11580>>,
       <<2190, 3020, 3910, 4860, 6230, 7440, 10450, 12770>>,
       <<2540, 2220, 4380, 5110, 7020, 9050, 12050, 14580>>,
       <<2960, 3950, 4640, 5940, 8260, 10820, 13670, 17260>>,
       <<2800, 3620, 5300, 7220, 8970, 12400, 15360, 21690>>,
       <<3220, 4360, 6300, 8520, 11400, 14430, 19600, 23900>>,
       <<3420, 4380, 7760, 9670, 12670, 15440, 21490, 28970>>,
       <<3830, 5460, 8680, 9810, 14950, 16190, 26280, 27610>>,
       <<4030, 5170, 9370, 10800, 16090, 17850, 27830, 29250>>,
       <<4440, 4940, 9940, 11040, 18350, 19780, 29810, 32430>>,
       <<4650, 5190, 10130, 10810, 18500, 19110, 30150, 30510>>,
       <<13350, 15890>> >>

\* the number of rows of ffm_ref and fm_ref
RefRows == 17

\* ifelse(bmiCat == k, 1.0, 0.0)
IfCat(bmiCat, k) == IF bmiCat = k THEN 1 ELSE 0

\* ref(r, j) of a reference matrix as its assignments fill it, for an
\* individual of the given sex and BMI category.  The matrix has rows
\* 0..16; a row outside them is no element of it, and reads as 0 here.
RefEntry(table, r, sex, bmiCat) ==
    IF r < 0 \/ r >= RefRows THEN 0
    ELSE LET row == table[r + 1]
         IN  IF Len(row) = 2 THEN Blend(row[1], row[2], sex)
             ELSE IfCat(bmiCat, 1) * Blend(row[1], row[2], sex)
                + IfCat(bmiCat, 2) * Blend(row[3], row[4], sex)
                + IfCat(bmiCat, 3) * Blend(row[5], row[6], sex)
                + IfCat(bmiCat, 4) * Blend(row[7], row[8], sex)

\* a faulty lower row: the age is not clamped to 2
RefJminRaw(t) == FFloor(t) - 2

\* jmin and jmax of the interpolation loop, for an age t < 18
RefJmin(t) == Max(FFloor(t), 2) - 2

\* a faulty upper row: the lower row again
RefJmaxSame(t) == RefJmin(t)

RefJmax(t) == Min(RefJmin(t) + 1, 17)

\* diff = t - floor(t)
RefDiff(t) == FSub(t, Fl(FFloor(t)))

\* the body of the loop over the individuals: one individual's value
RefAt(table, t, sex, bmiCat) ==
    IF t >= Fl(18) THEN RefEntry(table, 16, sex, bmiCat)
    ELSE LET Interpolate(lo, hi) == lo + MulDiv(hi - lo, RefDiff(t), Unit)
         IN  Interpolate(RefEntry(table, RefJmin(t), sex, bmiCat),
                         RefEntry(table, RefJmax(t), sex, bmiCat))

FFMReference(c, t) ==
    NumericVector([j \in DOMAIN t |-> RefAt(FfmTable, t[j], c.sex[j], c.bmiCat[j])])

FMReference(c, t) ==
    NumericVector([j \in DOMAIN t |-> RefAt(FmTable, t[j], c.sex[j], c.bmiCat[j])])

----------------------------------------------------------------------------
(* Intake, energy balance, the right-hand side dMass *)

\* timeval of Intake: the row of EIntake read for the age vector t
IntakeRow(c, t) == FFloor(FDiv(FMulDays(FSub(t[1], c.age[1])), c.dt))

\* EIntake(timeval,_) raises index_out_of_bounds for a row the matrix lacks
IntakeThrows(c, t) ==
    /\ ~c.generalized_logistic
    /\ IntakeRow(c, t) \notin 0 .. Len(c.EIntake) - 1

\* Intake(t), where it does not raise
Intake(c, t) ==
    IF c.generalized_logistic
    THEN NumericVector([j \in DOMAIN t |->
            c.A_logistic
              + DivM(c.K_logistic - c.A_logistic,
                     PowM(c.C_logistic
                            + MulM(c.Q_logistic,
                                   ExpM(-MulM(c.B_logistic, ToMilli(t[j])))),
                          DivM(Milli, c.nu_logistic) \div Milli))])
    ELSE c.EIntake[IntakeRow(c, t) + 1]

IntakeReference(c, t) ==
    LET Sum(EB, FFMref, FMref, delta, growth, p, rhoFFM) ==
            NumericVector([j \in DOMAIN t |->
                EB[j] + c.K[j]
                  + MulM(22400 + delta[j], FFMref[j])
                  + MulM(4500 + delta[j], FMref[j])
                  + MulM(DivM(230 * Milli, rhoFFM[j]), MulM(p[j], EB[j]) + growth[j])
                  + MulM(DivM(180 * Milli, c.rhoFM),
                         MulM(Milli - p[j], EB[j]) - growth[j])])
        At(FFMref, FMref) ==
            Sum(EB_impact(c, t), FFMref, FMref, Delta(c, t), Growth_dynamic(c, t),
                cP(c, FFMref, FMref), cRhoFFM(FFMref))
    IN  At(FFMReference(c, t), FMReference(c, t))

Expenditure(c, t, FFM, FM) ==
    LET Expend(delta, Iref, Intakeval, growth, toFFM, toFM, coef) ==
            NumericVector([j \in DOMAIN t |->
                DivM(c.K[j]
                       + MulM(22400 + delta[j], FFM[j])
                       + MulM(4500 + delta[j], FM[j])
                       + MulM(240, Intakeval[j] - Iref[j])
                       + MulM(coef[j], Intakeval[j])
                       + MulM(growth[j], toFFM[j] - toFM[j]),
                     Milli + coef[j])])
        \* 230/rhoFFM, 180/rhoFM, and (230/rhoFFM)*p + (180/rhoFM)*(1 - p)
        Coef(p, toFFM, toFM) ==
            NumericVector([j \in DOMAIN t |->
                MulM(toFFM[j], p[j]) + MulM(toFM[j], Milli - p[j])])
        With(p, toFFM, toFM) ==
            Expend(Delta(c, t), IntakeReference(c, t), Intake(c, t),
                   Growth_dynamic(c, t), toFFM, toFM, Coef(p, toFFM, toFM))
        PerKg(rhoFFM) ==
            With(cP(c, FFM, FM),
                 NumericVector([j \in DOMAIN t |-> DivM(230 * Milli, rhoFFM[j])]),
                 NumericVector([j \in DOMAIN t |-> DivM(180 * Milli, c.rhoFM)]))
    IN  PerKg(cRhoFFM(FFM))

\* a faulty dMass: the share p of the surplus goes to both tissues
dMassOneShare(c, t, FFM, FM) ==
    LET Mass(rhoFFM, p, growth, expend, intake) ==
            << NumericVector([j \in DOMAIN t |->
                  DivM(MulM(MulM(Milli, p[j]), intake[j] - expend[j]) + growth[j],
                       rhoFFM[j])]),
               NumericVector([j \in DOMAIN t |->
                  DivM(MulM(p[j], intake[j] - expend[j]) - growth[j],
                       c.rhoFM)]) >>
    IN  Mass(cRhoFFM(FFM), cP(c, FFM, FM), Growth_dynamic(c, t),
             Expenditure(c, t, FFM, FM), Intake(c, t))

\* dMass(t, FFM, FM), where Intake does not raise: <<dFFM, dFM>>, the two
\* rows of the matrix Mass
dMass(c, t, FFM, FM) ==
    LET Mass(rhoFFM, p, growth, expend, intake) ==
            << NumericVector([j \in DOMAIN t |->
                  DivM(MulM(MulM(Milli, p[j]), intake[j] - expend[j]) + growth[j],
                       rhoFFM[j])]),
               NumericVector([j \in DOMAIN t |->
                  DivM(MulM(Milli - p[j], intake[j] - expend[j]) - growth[j],
                       c.rhoFM)]) >>
    IN  Mass(cRhoFFM(FFM), cP(c, FFM, FM), Growth_dynamic(c, t),
             Expenditure(c, t, FFM, FM), Intake(c, t))

----------------------------------------------------------------------------
(* rk4.  A matrix of the source with one row per individual is held as the  *)
(* sequence of its columns 0..nsims, each a vector over the individuals.     *)

\* a faulty body weight: the fat mass is left out
BodyWeightLean(ffm, fm) == ffm

\* ModelFFM(_,i) + ModelFM(_,i)
BodyWeight(ffm, fm) == NumericVector([j \in DOMAIN ffm |-> ffm[j] + fm[j]])

\* NumericMatrix(nind, ncol): zero-filled
ZeroMatrix(nind, ncol) == [col \in 0 .. ncol - 1 |-> NumericVector([j \in 1 .. nind |-> 0])]

\* the locals of rk4(days) on object o as the loop is entered (i = 1); stage
\* is the position inside the loop body: 1..4 before k1..k4 is computed, 5
\* before the columns of step i are written
Rk4Begin(o, c, days) ==
    LET nsims == FFloor(FDiv(days, c.dt))
    IN  [ pc |-> "loop", obj |-> o, days |-> days, nsims |-> nsims, i |-> 1,
          stage |-> 1,
          ModelFFM |-> [ZeroMatrix(c.nind, nsims + 1) EXCEPT ![0] = c.FFM],
          ModelFM  |-> [ZeroMatrix(c.nind, nsims + 1) EXCEPT ![0] = c.FM],
          ModelBW  |-> [ZeroMatrix(c.nind, nsims + 1) EXCEPT ![0] = BodyWeight(c.FFM, c.FM)],
          AGE      |-> [ZeroMatrix(c.nind, nsims + 1) EXCEPT ![0] = c.age],
          TIME     |-> [[col \in 0 .. nsims |-> 0] EXCEPT ![0] = 0],
          k1 |-> << >>, k2 |-> << >>, k3 |-> << >>, k4 |-> << >>,
          correctVals |-> TRUE,
          rows |-> {} ]

\* the age argument of stage s of a step from the age column a:
\* a, a + 0.5*dt/365.0 (twice), a + dt/365.0
StageAge(a, dt, s) ==
    IF s = 1 THEN a
    ELSE IF s = 4 THEN NumericVector([j \in DOMAIN a |-> FAdd(a[j], FDivDays(dt))])
    ELSE NumericVector([j \in DOMAIN a |-> FAdd(a[j], FDivDays(FMul(Half, dt)))])

\* the mass argument of stage s from the column x and the previous stage's
\* derivative k: x, x + 0.5*k (twice), x + k
StageMass(x, k, s) ==
    IF s = 1 THEN x
    ELSE IF s = 4 THEN NumericVector([j \in DOMAIN x |-> x[j] + k[j]])
    ELSE NumericVector([j \in DOMAIN x |-> x[j] + MulM(500, k[j])])

\* the derivative the stage s of the running step builds on: none, k1, k2, k3
StagePrev(cl, s) ==
    IF s = 2 THEN cl.k1
    ELSE IF s = 3 THEN cl.k2
    ELSE IF s = 4 THEN cl.k3
    ELSE << << >>, << >> >>

\* k1 .. k4 of the loop body: dMass at the arguments of stage s
Rk4Stage(c, cl, s) ==
    dMass(c, StageAge(cl.AGE[cl.i - 1], c.dt, s),
          StageMass(cl.ModelFFM[cl.i - 1], StagePrev(cl, s)[1], s),
          StageMass(cl.ModelFM[cl.i - 1], StagePrev(cl, s)[2], s))

\* a faulty update: the middle stages are not weighted twice
Rk4Unweighted(x, dt, a1, a2, a3, a4) ==
    NumericVector([j \in DOMAIN x |->
        x[j] + (MulDiv(a1[j] + a2[j] + a3[j] + a4[j], dt, Unit) \div 6)])

\* x + dt*(k1 + 2.0*k2 + 2.0*k3 + k4)/6.0
Rk4Update(x, dt, a1, a2, a3, a4) ==
    NumericVector([j \in DOMAIN x |->
        x[j] + (MulDiv(a1[j] + 2 * a2[j] + 2 * a3[j] + a4[j], dt, Unit) \div 6)])

\* the rows of EIntake the stage s of the running step asks for
StageRows(c, cl, s) ==
    IF c.generalized_logistic THEN {}
    ELSE {IntakeRow(c, StageAge(cl.AGE[cl.i - 1], c.dt, s))}

\* the locals after the columns of step i are written and i is incremented
Rk4Body(c, cl) ==
    LET i   == cl.i
        ffm == Rk4Update(cl.ModelFFM[i - 1], c.dt, cl.k1[1], cl.k2[1], cl.k3[1], cl.k4[1])
        fm  == Rk4Update(cl.ModelFM[i - 1], c.dt, cl.k1[2], cl.k2[2], cl.k3[2], cl.k4[2])
    IN  [cl EXCEPT !.ModelFFM[i] = ffm,
                   !.ModelFM[i]  = fm,
                   !.ModelBW[i]  = BodyWeight(ffm, fm),
                   !.TIME[i]     = FAdd(cl.TIME[i - 1], c.dt),
                   !.AGE[i]      = NumericVector([j \in DOMAIN cl.AGE[i - 1] |->
                                       FAdd(cl.AGE[i - 1][j], FDivDays(c.dt))]),
                   !.stage       = 1,
                   !.i           = i + 1]

\* List::create(...): what rk4 returns
Rk4Result(cl) ==
    [ kind |-> "list",
      Time |-> cl.TIME, Age |-> cl.AGE, Fat_Free_Mass |-> cl.ModelFFM,
      Fat_Mass |-> cl.ModelFM, Body_Weight |-> cl.ModelBW,
      Correct_Values |-> cl.correctVals, Model_Type |-> "Children" ]

\* what the caller gets when EIntake(timeval,_) raises: no list
Rk4Error == [ kind |-> "error", what |-> "index_out_of_bounds" ]

----------------------------------------------------------------------------
(* The state: the objects, the running call of rk4 (the program is single   *)
(* threaded: one call at a time), what the calls returned to their caller,  *)
(* and the last direct call of a reference curve or of Delta.               *)

VARIABLES objs, call, rets, probe

vars == <<objs, call, rets, probe>>

ObjIds == {1, 2}

NoCall == [ pc |-> "idle" ]

NoProbe == [ fn |-> "none" ]

----------------------------------------------------------------------------
(* The inputs the model draws from *)

\* kcal by which one row of an intake matrix differs from the row before
RowStep == 50 * Milli

\* the individuals of the cohorts: age, sex, BMI category, the initial
\* masses, and the first row of the individual's column of the intake matrix
Individuals ==
    { [ age |-> Fl(6),  sex |-> 0,     bmiCat |-> 2, FFM |-> 17000, FM |-> 3500,  EI |-> 1500 * Milli ],
      [ age |-> Fl(10), sex |-> Milli, bmiCat |-> 4, FFM |-> 30000, FM |-> 15000, EI |-> 2000 * Milli ] }

Cohorts == UNION { [1 .. n -> Individuals] : n \in 1 .. MaxInd }

Field(cohort, f) == [j \in DOMAIN cohort |-> cohort[j][f]]

\* an intake matrix with nrow rows for a cohort: row r, column j
IntakeMatrix(cohort, nrow) ==
    [r \in 1 .. nrow |-> [j \in DOMAIN cohort |-> cohort[j].EI + (r - 1) * RowStep]]

\* the numbers of rows of the intake matrices
RowCounts == 1 .. MaxDays

\* dt of 1 day and of 2 days
Steps == { Fl(1), Fl(2) }

\* days of a call
DaysArgs == { Fl(d) : d \in 0 .. MaxDays }

\* the parameters of the Richards curve
Logistics ==
    { [ K |-> 1200 * Milli, Q |-> Milli, A |-> 800 * Milli, B |-> 10, nu |-> Milli, C |-> Milli ] }

----------------------------------------------------------------------------
(* Actions *)

Init ==
    /\ objs = [o \in ObjIds |-> NoChild]
    /\ call = NoCall
    /\ rets = << >>
    /\ probe = NoProbe

\* Child(age, sex, FFM, FM, EIntake, dt, checkValues)
NewTable(o, cohort, nrow, dt, checkValues) ==
    /\ ~objs[o].built
    /\ call.pc = "idle"
    /\ objs' = [objs EXCEPT ![o] =
                  ChildTable(Field(cohort, "age"), Field(cohort, "sex"),
                             Field(cohort, "FFM"), Field(cohort, "FM"),
                             IntakeMatrix(cohort, nrow), dt, checkValues,
                             Field(cohort, "bmiCat"))]
    /\ UNCHANGED <<call, rets, probe>>

\* Child(age, sex, FFM, FM, K, Q, A, B, nu, C, dt, checkValues)
NewLogistic(o, cohort, lg, dt, checkValues) ==
    /\ ~objs[o].built
    /\ call.pc = "idle"
    /\ objs' = [objs EXCEPT ![o] =
                  ChildLogistic(Field(cohort, "age"), Field(cohort, "sex"),
                                Field(cohort, "FFM"), Field(cohort, "FM"),
                                lg.K, lg.Q, lg.A, lg.B, lg.nu, lg.C, dt,
                                checkValues, Field(cohort, "bmiCat"))]
    /\ UNCHANGED <<call, rets, probe>>

\* what the caller keeps of a call that ended: the value (the list or the
\* error), and for the record the rows Intake asked for, the loop bound, and
\* the object as rk4 was entered and as it was left
Outcome(value, cl, rows, c) ==
    [ value |-> value, obj |-> cl.obj, days |-> cl.days, nsims |-> cl.nsims,
      steps |-> cl.i - 1, rows |-> rows, entry |-> cl.entry, exit |-> c ]

\* rk4(days) is called on object o: lines 276-296
Rk4Call(o, days) ==
    /\ objs[o].built
    /\ call.pc = "idle"
    /\ Len(rets) < MaxCalls
    /\ call' = Rk4Begin(o, objs[o], days) @@ [entry |-> objs[o]]
    /\ UNCHANGED <<objs, rets, probe>>

\* one of the stages k1 .. k4 of the loop body, lines 299-308
Rk4Stages ==
    LET c == objs[call.obj]
        s == call.stage
        k == Rk4Stage(c, call, s)
    IN  /\ call.pc = "loop"
        /\ call.i <= call.nsims
        /\ s <= 4
        /\ ~IntakeThrows(c, StageAge(call.AGE[call.i - 1], c.dt, s))
        /\ call' = [call EXCEPT !.k1 = IF s = 1 THEN k ELSE @,
                                !.k2 = IF s = 2 THEN k ELSE @,
                                !.k3 = IF s = 3 THEN k ELSE @,
                                !.k4 = IF s = 4 THEN k ELSE @,
                                !.rows = @ \cup StageRows(c, call, s),
                                !.stage = s + 1]
        /\ UNCHANGED <<objs, rets, probe>>

\* the columns of step i are written, lines 310-319
Rk4Step ==
    /\ call.pc = "loop"
    /\ call.i <= call.nsims
    /\ call.stage = 5
    /\ call' = Rk4Body(objs[call.obj], call)
    /\ UNCHANGED <<objs, rets, probe>>

\* a stage of the loop body in which Intake raises: the exception leaves rk4
Rk4Throw ==
    LET c == objs[call.obj]
        s == call.stage
    IN  /\ call.pc = "loop"
        /\ call.i <= call.nsims
        /\ s <= 4
        /\ IntakeThrows(c, StageAge(call.AGE[call.i - 1], c.dt, s))
        /\ rets' = Append(rets, Outcome(Rk4Error, call,
                                        call.rows \cup StageRows(c, call, s), c))
        /\ call' = NoCall
        /\ UNCHANGED <<objs, probe>>

\* a faulty return: the last column is stored into the object
Rk4ReturnStoring ==
    /\ call.pc = "loop"
    /\ call.i > call.nsims
    /\ objs' = [objs EXCEPT ![call.obj].FFM = call.ModelFFM[call.nsims],
                            ![call.obj].FM  = call.ModelFM[call.nsims],
                            ![call.obj].age = call.AGE[call.nsims]]
    /\ rets' = Append(rets, Outcome(Rk4Result(call), call, call.rows, objs'[call.obj]))
    /\ call' = NoCall
    /\ UNCHANGED probe

\* the loop is over: rk4 returns the list, lines 322-328
Rk4Return ==
    /\ call.pc = "loop"
    /\ call.i > call.nsims
    /\ rets' = Append(rets, Outcome(Rk4Result(call), call, call.rows, objs[call.obj]))
    /\ call' = NoCall
    /\ UNCHANGED <<objs, probe>>

\* the rows of a reference matrix the loop of FFMReference and FMReference
\* reads for one individual of age t
RefRowsRead(t) == IF t >= Fl(18) THEN {16} ELSE {RefJmin(t), RefJmax(t)}

\* FFMReference(t) is called on object o
CallFFMReference(o, t) ==
    /\ objs[o].built
    /\ call.pc = "idle"
    /\ probe = NoProbe
    /\ probe' = [ fn |-> "FFMReference", obj |-> o, t |-> t,
                  out |-> FFMReference(objs[o], t),
                  rows |-> [j \in DOMAIN t |-> RefRowsRead(t[j])] ]
    /\ UNCHANGED <<objs, call, rets>>

\* FMReference(t) is called on object o
CallFMReference(o, t) ==
    /\ objs[o].built
    /\ call.pc = "idle"
    /\ probe = NoProbe
    /\ probe' = [ fn |-> "FMReference", obj |-> o, t |-> t,
                  out |-> FMReference(objs[o], t),
                  rows |-> [j \in DOMAIN t |-> RefRowsRead(t[j])] ]
    /\ UNCHANGED <<objs, call, rets>>

\* Delta(t) is called on object o
CallDelta(o, t) ==
    /\ objs[o].built
    /\ call.pc = "idle"
    /\ probe = NoProbe
    /\ probe' = [ fn |-> "Delta", obj |-> o, t |-> t,
                  out |-> Delta(objs[o], t),
                  rows |-> [j \in DOMAIN t |-> {}] ]
    /\ UNCHANGED <<objs, call, rets>>

\* dMass(t, FFM, FM) is called on object o; the call raises where Intake does
CallDMass(o, t, FFM, FM) ==
    /\ objs[o].built
    /\ call.pc = "idle"
    /\ probe = NoProbe
    /\ probe' = [ fn |-> "dMass", obj |-> o, t |-> t, FFM |-> FFM, FM |-> FM,
                  raised |-> IntakeThrows(objs[o], t),
                  out |-> IF IntakeThrows(objs[o], t) THEN << >>
                          ELSE dMass(objs[o], t, FFM, FM) ]
    /\ UNCHANGED <<objs, call, rets>>

----------------------------------------------------------------------------
(* Specifications *)

\* the driver repeats a call with the days of the first
Again(days) == rets # << >> => days = rets[1].days

\* rk4(days) on the one object, and again
Rk4Again(days) == Again(days) /\ Rk4Call(1, days)

\* One object, constructed either way, and up to MaxCalls calls of rk4 on it.
Next ==
    \/ \E cohort \in Cohorts, nrow \in RowCounts, dt \in Steps :
          NewTable(1, cohort, nrow, dt, FALSE)
    \/ \E cohort \in Cohorts, lg \in Logistics, dt \in Steps :
          NewLogistic(1, cohort, lg, dt, FALSE)
    \/ \E days \in DaysArgs : Rk4Again(days)
    \/ Rk4Stages
    \/ Rk4Step
    \/ Rk4Throw
    \/ Rk4Return

Spec == Init /\ [][Next]_vars

\* Two objects of the same cohort size, step and intake mode (the second a
\* table of as many rows, or the same curve), then rk4 with the same days on
\* the first and on the second.  The second object is of another cohort, or
\* of the same cohort with the other value of checkValues.
Variant(cohort, chk) ==
    /\ Len(cohort) = objs[1].nind
    /\ chk = (Field(cohort, "age") = objs[1].age)

SecondTable(cohort, chk) ==
    /\ objs[1].built
    /\ ~objs[1].generalized_logistic
    /\ Variant(cohort, chk)
    /\ NewTable(2, cohort, Len(objs[1].EIntake), objs[1].dt, chk)

SecondLogistic(cohort, chk) ==
    /\ objs[1].built
    /\ objs[1].generalized_logistic
    /\ Variant(cohort, chk)
    /\ NewLogistic(2, cohort,
                   [ K |-> objs[1].K_logistic, Q |-> objs[1].Q_logistic,
                     A |-> objs[1].A_logistic, B |-> objs[1].B_logistic,
                     nu |-> objs[1].nu_logistic, C |-> objs[1].C_logistic ],
                   objs[1].dt, chk)

PairCall(days) ==
    /\ objs[1].built
    /\ objs[2].built
    /\ Len(rets) + 1 \in ObjIds
    /\ Again(days)
    /\ Rk4Call(Len(rets) + 1, days)

NextPair ==
    \/ \E cohort \in Cohorts, nrow \in RowCounts :
          NewTable(1, cohort, nrow, Fl(1), FALSE)
    \/ \E cohort \in Cohorts, lg \in Logistics :
          NewLogistic(1, cohort, lg, Fl(1), FALSE)
    \/ \E cohort \in Cohorts, chk \in BOOLEAN : SecondTable(cohort, chk)
    \/ \E cohort \in Cohorts, chk \in BOOLEAN : SecondLogistic(cohort, chk)
    \/ \E days \in DaysArgs : PairCall(days)
    \/ Rk4Stages
    \/ Rk4Step
    \/ Rk4Throw
    \/ Rk4Return

SpecPair == Init /\ [][NextPair]_vars

\* The reference curves and Delta called directly, over a range of ages, on
\* an object of one individual of either sex and any BMI category.
RefIndividuals ==
    { [ age |-> Fl(6), sex |-> sx, bmiCat |-> b, FFM |-> 17000, FM |-> 3500, EI |-> 1500 * Milli ] : sx \in {0, Milli}, b \in 1 .. 4 }

\* ages from -1 to 19.5 in quarters of a year, and ages a few days past a birthday
ProbeAges ==
    { q * (Unit \div 4) : q \in -4 .. 78 }
      \cup { FAdd(Fl(y), FDivDays(Fl(d))) : y \in {1, 6, 17}, d \in 1 .. MaxDays }

NextRef ==
    \/ \E ind \in RefIndividuals, lg \in Logistics, dt \in Steps :
          NewLogistic(1, <<ind>>, lg, dt, FALSE)
    \/ \E a \in ProbeAges : CallFFMReference(1, <<a>>)
    \/ \E a \in ProbeAges : CallFMReference(1, <<a>>)
    \/ \E a \in ProbeAges : CallDelta(1, <<a>>)

SpecRef == Init /\ [][NextRef]_vars

\* dMass called directly on an object of either kind, at ages around the
\* age of the cohort and at masses the trajectories do and do not visit.
MassCohorts ==
    { <<ind>> : ind \in Individuals } \cup { <<a, b>> : a, b \in Individuals }

\* the ages dMass is called at: with an intake matrix, the days from the one
\* before the age of the first individual to MaxDays after it; with the
\* logistic intake, whole ages and ages a few days past them
MassAges(c) ==
    IF c.generalized_logistic
    THEN { FAdd(Fl(y), FDivDays(Fl(d))) : y \in {2, 6, 10, 14, 18}, d \in 0 .. MaxDays }
    ELSE { FAdd(c.age[1], FDivDays(Fl(d))) : d \in -1 .. MaxDays }

\* FFM and FM in grams; tissueDensity(FFM) = 4.3*FFM + 837 is below zero for
\* the last
Masses ==
    << [ FFM |-> 17000, FM |-> 3500 ], [ FFM |-> 30000, FM |-> 15000 ],
       [ FFM |-> 45000, FM |-> 9000 ], [ FFM |-> -300000, FM |-> 3500 ] >>

\* the masses of the individuals of a call: each of Masses for the first
\* individual, the one after it for the second
MassVectors ==
    { <<Masses[k], Masses[(k % Len(Masses)) + 1]>> : k \in DOMAIN Masses }

\* dMass on the one object, every individual at the same age
ProbeDMass(m) ==
    /\ objs[1].built
    /\ \E a \in MassAges(objs[1]) :
          CallDMass(1, [j \in 1 .. objs[1].nind |-> a],
                       [j \in 1 .. objs[1].nind |-> m[j].FFM],
                       [j \in 1 .. objs[1].nind |-> m[j].FM])

NextMass ==
    \/ \E cohort \in MassCohorts, nrow \in RowCounts, dt \in Steps :
          NewTable(1, cohort, nrow, dt, FALSE)
    \/ \E cohort \in MassCohorts, lg \in Logistics, dt \in Steps :
          NewLogistic(1, cohort, lg, dt, FALSE)
    \/ \E m \in MassVectors : ProbeDMass(m)

SpecMass == Init /\ [][NextMass]_vars

----------------------------------------------------------------------------
(* Properties of rk4: the returned trajectory *)

\* C1: in every column i (0 <= i <= steps) of a trajectory rk4 returned, and
\* for every individual, Body_Weight[i] is Fat_Free_Mass[i] + Fat_Mass[i] of
\* that column.
C1_BodyWeightIdentity ==
    \A k \in DOMAIN rets :
        rets[k].value.kind = "list" =>
            \A i \in 0 .. rets[k].nsims : \A j \in 1 .. rets[k].entry.nind :
                rets[k].value.Body_Weight[i][j]
                    = rets[k].value.Fat_Free_Mass[i][j] + rets[k].value.Fat_Mass[i][j]

\* a returned trajectory of two steps or more for a cohort of two or more
C1_Witness ==
    \E k \in DOMAIN rets :
        /\ rets[k].value.kind = "list"
        /\ rets[k].nsims >= 2
        /\ rets[k].entry.nind >= 2
        /\ rets[k].value.Fat_Mass[2][2] > 0

\* C2: for dt > 0 and days >= 0 every call of rk4(days) performs
\* steps = floor(days/dt) passes of the loop and returns; the trajectory has
\* steps+1 columns, column 0 is the initial cohort (Time 0, the initial age,
\* FFM, FM), and for every i in 1..steps Time[i] = Time[i-1] + dt and
\* Age[i] = Age[i-1] + dt/365, hence Time[i] = i*dt and Age[i] = age0 + i*dt/365.
C2_StepsAndClock ==
    \A k \in DOMAIN rets :
        LET r     == rets[k]
            c     == rets[k].entry
            v     == rets[k].value
            steps == FFloor(FDiv(rets[k].days, rets[k].entry.dt))
        IN  /\ v.kind = "list"
            /\ r.steps = steps
            /\ DOMAIN v.Time = 0 .. steps
            /\ DOMAIN v.Age = 0 .. steps
            /\ DOMAIN v.Fat_Free_Mass = 0 .. steps
            /\ DOMAIN v.Fat_Mass = 0 .. steps
            /\ DOMAIN v.Body_Weight = 0 .. steps
            /\ v.Time[0] = 0
            /\ v.Age[0] = c.age
            /\ v.Fat_Free_Mass[0] = c.FFM
            /\ v.Fat_Mass[0] = c.FM
            /\ \A i \in 1 .. steps :
                /\ v.Time[i] = FAdd(v.Time[i - 1], c.dt)
                /\ v.Time[i] = FMul(Fl(i), c.dt)
                /\ \A j \in 1 .. c.nind :
                    /\ v.Age[i][j] = FAdd(v.Age[i - 1][j], FDivDays(c.dt))
                    /\ v.Age[i][j] = FAdd(c.age[j], FDivDays(FMul(Fl(i), c.dt)))

\* C3: in table mode, with an intake matrix of `steps` rows
\* (steps = floor(days/dt)), every row Intake asks for during rk4(days), over
\* all the steps and the four stages, the k4 stage included, is in 0..steps-1.
C3_IntakeRowsInRange ==
    \A k \in DOMAIN rets :
        (/\ ~rets[k].entry.generalized_logistic
         /\ Len(rets[k].entry.EIntake) = FFloor(FDiv(rets[k].days, rets[k].entry.dt)))
            => rets[k].rows \subseteq 0 .. Len(rets[k].entry.EIntake) - 1

\* C6: in each step the four stage derivatives are computed from the column
\* before it: k1 = dMass(age, FFM, FM); k2 = dMass(age + 0.5*dt/365,
\* FFM + 0.5*k1.FFM, FM + 0.5*k1.FM); k3 likewise from k2; k4 = dMass(age +
\* dt/365, FFM + k3.FFM, FM + k3.FM); and the column of the step is
\* FFM + dt*(k1 + 2*k2 + 2*k3 + k4)/6, likewise for FM.  Stated where a step
\* has just been completed (the step call.i - 1, from the column call.i - 2).
C6_StageFormulas ==
    (call.pc = "loop" /\ call.stage = 1 /\ call.i > 1) =>
        LET c    == objs[call.obj]
            age  == call.AGE[call.i - 2]
            FFM  == call.ModelFFM[call.i - 2]
            FM   == call.ModelFM[call.i - 2]
            half == [j \in DOMAIN age |-> FAdd(age[j], FDivDays(FMul(Half, c.dt)))]
            full == [j \in DOMAIN age |-> FAdd(age[j], FDivDays(c.dt))]
            Plus(x, w, k) == [j \in DOMAIN x |-> x[j] + MulM(w, k[j])]
            Column(x, r) ==
                [j \in DOMAIN x |->
                    x[j] + (MulDiv(call.k1[r][j] + 2 * call.k2[r][j]
                                     + 2 * call.k3[r][j] + call.k4[r][j],
                                   c.dt, Unit) \div 6)]
        IN  /\ call.k1 = dMass(c, age, FFM, FM)
            /\ call.k2 = dMass(c, half, Plus(FFM, 500, call.k1[1]), Plus(FM, 500, call.k1[2]))
            /\ call.k3 = dMass(c, half, Plus(FFM, 500, call.k2[1]), Plus(FM, 500, call.k2[2]))
            /\ call.k4 = dMass(c, full, Plus(FFM, Milli, call.k3[1]), Plus(FM, Milli, call.k3[2]))
            /\ call.ModelFFM[call.i - 1] = Column(FFM, 1)
            /\ call.ModelFM[call.i - 1] = Column(FM, 2)

\* the second step or a later one completed, for two individuals or more, with
\* stages that differ
C6_Witness ==
    /\ call.pc = "loop"
    /\ call.stage = 1
    /\ call.i > 2
    /\ objs[call.obj].nind >= 2
    /\ call.k4 # call.k1

\* C8: rk4(days) leaves the object as it was (the cohort members, dt, the
\* intake mode and its payload, the members getParameters set), while it runs
\* and when it has ended; so rk4(days) called again on the object returns what
\* the first call returned.
C8_ObjectUnchanged ==
    /\ call.pc = "loop" => objs[call.obj] = call.entry
    /\ \A k \in DOMAIN rets :
        /\ rets[k].exit = rets[k].entry
        /\ objs[rets[k].obj] = rets[k].entry
    /\ \A k \in DOMAIN rets : \A n \in DOMAIN rets :
        (rets[k].obj = rets[n].obj /\ rets[k].days = rets[n].days)
            => rets[k].value = rets[n].value

\* two calls on the object, each returning a trajectory of two steps or more
C8_Witness ==
    /\ Len(rets) = 2
    /\ rets[1].obj = rets[2].obj
    /\ rets[1].value.kind = "list"
    /\ rets[2].value.kind = "list"
    /\ rets[2].nsims >= 2
    /\ rets[2].value.Fat_Free_Mass[2] # rets[2].entry.FFM

----------------------------------------------------------------------------
(* Properties of two runs *)

\* individual j is the same in the objects ca and cb: age, sex, BMI category,
\* initial masses, and in table mode column j of the intake matrix
SameIndividual(ca, cb, j) ==
    /\ ca.age[j] = cb.age[j]
    /\ ca.sex[j] = cb.sex[j]
    /\ ca.bmiCat[j] = cb.bmiCat[j]
    /\ ca.FFM[j] = cb.FFM[j]
    /\ ca.FM[j] = cb.FM[j]
    /\ \A r \in DOMAIN ca.EIntake : ca.EIntake[r][j] = cb.EIntake[r][j]

\* the runs ra and rb ended alike for individual j: both raised, or both
\* returned and the rows of individual j are identical
SameRows(ra, rb, j) ==
    /\ ra.value.kind = rb.value.kind
    /\ ra.value.kind = "list" =>
        \A i \in 0 .. ra.nsims :
            /\ ra.value.Age[i][j] = rb.value.Age[i][j]
            /\ ra.value.Fat_Free_Mass[i][j] = rb.value.Fat_Free_Mass[i][j]
            /\ ra.value.Fat_Mass[i][j] = rb.value.Fat_Mass[i][j]
            /\ ra.value.Body_Weight[i][j] = rb.value.Body_Weight[i][j]

\* C7: no coupling between individuals.  For two cohorts of the same size run
\* with the same dt, days and intake mode (in table mode, matrices of as many
\* rows), an individual j that is the same in both has identical Age,
\* Fat_Free_Mass, Fat_Mass and Body_Weight rows in both runs, whatever the
\* other individuals are.
C7_NoCoupling ==
    (/\ Len(rets) = 2
     /\ rets[1].days = rets[2].days
     /\ rets[1].entry.nind = rets[2].entry.nind
     /\ rets[1].entry.dt = rets[2].entry.dt
     /\ rets[1].entry.generalized_logistic = rets[2].entry.generalized_logistic
     /\ Len(rets[1].entry.EIntake) = Len(rets[2].entry.EIntake))
        => \A j \in 1 .. rets[1].entry.nind :
               SameIndividual(rets[1].entry, rets[2].entry, j)
                   => SameRows(rets[1], rets[2], j)

\* the object ca built again from the same inputs with the flag chk
Rebuilt(ca, chk) ==
    IF ca.generalized_logistic
    THEN ChildLogistic(ca.age, ca.sex, ca.FFM, ca.FM, ca.K_logistic, ca.Q_logistic,
                       ca.A_logistic, ca.B_logistic, ca.nu_logistic, ca.C_logistic,
                       ca.dt, chk, ca.bmiCat)
    ELSE ChildTable(ca.age, ca.sex, ca.FFM, ca.FM, ca.EIntake, ca.dt, chk, ca.bmiCat)

\* C9: checkValues has no effect.  Two objects built from identical inputs in
\* the same intake mode, one without and one with checkValues, differ in
\* nothing but the flag, and rk4(days) ends the same way on both: the same
\* list, or the same error.
C9_CheckHasNoEffect ==
    /\ \A o \in ObjIds :
        (objs[o].built /\ objs[1].built /\ ~objs[1].check
           /\ objs[o] = Rebuilt(objs[1], objs[o].check))
            => objs[o] = [objs[1] EXCEPT !.check = objs[o].check]
    /\ (/\ Len(rets) = 2
        /\ rets[1].days = rets[2].days
        /\ ~rets[1].entry.check
        /\ rets[2].entry.check
        /\ rets[2].entry = Rebuilt(rets[1].entry, TRUE))
           => rets[1].value = rets[2].value

\* both runs ended, on objects that differ in the flag only: once in table
\* mode, returning a trajectory of two steps or more
C9_Witness ==
    /\ Len(rets) = 2
    /\ ~rets[1].entry.check
    /\ rets[2].entry.check
    /\ rets[2].entry = Rebuilt(rets[1].entry, TRUE)
    /\ ~rets[2].entry.generalized_logistic
    /\ rets[2].value.kind = "list"
    /\ rets[2].nsims >= 2

----------------------------------------------------------------------------
(* Properties of the reference curves and of Delta *)

\* x clamped to lo..hi
Clamp(x, lo, hi) == Max(lo, Min(x, hi))

\* C4: FFMReference and FMReference, for each individual: for an age a with
\* integer part y, 2 <= y < 18, the value is row(y) + (a - y)*(row(y+1) -
\* row(y)), row(k) the table row of age k (index k-2) for the individual's sex
\* and BMI category; at a whole age 2..18 it is the table value of that age;
\* for every age >= 18 it is the value of row 16 (18 years).
C4_ReferenceInterpolation ==
    probe.fn \in {"FFMReference", "FMReference"} =>
        LET c     == objs[probe.obj]
            table == IF probe.fn = "FFMReference" THEN FfmTable ELSE FmTable
            Row(k, j) == RefEntry(table, k - 2, c.sex[j], c.bmiCat[j])
        IN  \A j \in DOMAIN probe.t :
                LET a == probe.t[j]
                    y == FFloor(probe.t[j])
                IN  /\ (2 <= y /\ y < 18) =>
                        probe.out[j]
                            = Row(y, j) + MulDiv(Row(y + 1, j) - Row(y, j),
                                                 FSub(a, Fl(y)), Unit)
                    /\ (y \in 2 .. 18 /\ a = Fl(y)) => probe.out[j] = Row(y, j)
                    /\ a >= Fl(18) => probe.out[j] = Row(18, j)

\* FFMReference at an age inside a bracket, strictly between two whole ages,
\* where the two rows differ
C4_Witness ==
    /\ probe.fn = "FFMReference"
    /\ FFloor(probe.t[1]) \in 2 .. 17
    /\ probe.t[1] # Fl(FFloor(probe.t[1]))
    /\ probe.out[1] # RefEntry(FfmTable, FFloor(probe.t[1]) - 2,
                               objs[probe.obj].sex[1], objs[probe.obj].bmiCat[1])

\* C5: for every age passed to FFMReference or FMReference (ages below 2 and
\* negative ages included) the rows read are inside 0..16: the lower is
\* floor(age)-2 clamped to 0..16, the upper the next row clamped to 16; for an
\* age below 2 the lower row is row 0 and the value lies between the values of
\* row 0 and row 1.
C5_RowsInsideTable ==
    probe.fn \in {"FFMReference", "FMReference"} =>
        LET c     == objs[probe.obj]
            table == IF probe.fn = "FFMReference" THEN FfmTable ELSE FmTable
            Row(r, j) == RefEntry(table, r, c.sex[j], c.bmiCat[j])
        IN  \A j \in DOMAIN probe.t :
                LET lower == Clamp(FFloor(probe.t[j]) - 2, 0, 16)
                IN  /\ probe.rows[j] \subseteq 0 .. 16
                    /\ probe.rows[j] = {lower, Min(lower + 1, 16)}
                    /\ probe.t[j] < Fl(2) =>
                        /\ 0 \in probe.rows[j]
                        /\ Min(Row(0, j), Row(1, j)) <= probe.out[j]
                        /\ probe.out[j] <= Max(Row(0, j), Row(1, j))

\* FMReference at a negative age
C5_Witness ==
    /\ probe.fn = "FMReference"
    /\ probe.t[1] < 0
    /\ probe.out[1] > 0

\* C10 as stated: Delta(t) is within [deltamin, deltamax] for every age t and
\* strictly decreasing: for any two ages t1 < t2, Delta(t1) > Delta(t2).
C10_StrictlyDecreasing ==
    probe.fn = "Delta" =>
        LET c == objs[probe.obj]
        IN  \A j \in DOMAIN probe.t :
                /\ c.deltamin <= probe.out[j]
                /\ probe.out[j] <= c.deltamax[j]
                /\ \A t2 \in ProbeAges :
                    probe.t[j] < t2 =>
                        probe.out[j] > DeltaAt(c.deltamin, c.deltamax[j], c.P, c.h, ToMilli(t2))

\* C10, amended: Delta(t) is within [deltamin, deltamax] for every age t, and
\* it does not increase with age from 0 on: for 0 <= t1 < t2,
\* Delta(t1) >= Delta(t2).
C10_BoundedNonIncreasing ==
    probe.fn = "Delta" =>
        LET c == objs[probe.obj]
        IN  \A j \in DOMAIN probe.t :
                /\ c.deltamin <= probe.out[j]
                /\ probe.out[j] <= c.deltamax[j]
                /\ \A t2 \in ProbeAges :
                    (0 <= probe.t[j] /\ probe.t[j] < t2) =>
                        probe.out[j] >= DeltaAt(c.deltamin, c.deltamax[j], c.P, c.h, ToMilli(t2))

\* Delta at an age above 0 where it is strictly inside its range and above
\* its value at a later age
C10_Witness ==
    /\ probe.fn = "Delta"
    /\ probe.t[1] > 0
    /\ objs[probe.obj].deltamin < probe.out[1]
    /\ probe.out[1] < objs[probe.obj].deltamax[1]
    /\ \E t2 \in ProbeAges :
        /\ probe.t[1] < t2
        /\ probe.out[1] > DeltaAt(objs[probe.obj].deltamin, objs[probe.obj].deltamax[1],
                                  objs[probe.obj].P, objs[probe.obj].h, ToMilli(t2))

----------------------------------------------------------------------------
(* Properties of dMass *)

\* the bound on the difference between d*rho and the numerator n the
\* quotient d = n/rho was rounded from: one unit of d times rho, and one
\* unit for the rounding of the product
DivisionBound(rho) == Abs(rho) \div Milli + 2

====
